---- MODULE Spec2Model ----
(***************************************************************************)
(* A model of lib/svg2geojson.js: the conversion of a parsed, georeferenced *)
(* SVG element tree into GeoJSON feature collections.                      *)
(*                                                                         *)
(* Conventions of the model                                                *)
(*  - a JavaScript value that may be undefined is a sequence of length 0   *)
(*    (undefined) or 1 (the value): None / Some(v);                        *)
(*  - a string the code takes apart (an id, a layer name) is a sequence of *)
(*    one-character strings;                                               *)
(*  - a document is the preorder list of its elements, each with its depth *)
(*    (1 = child of <svg>); a node's children list `$$` is undefined when  *)
(*    it has no child element, as xml2js builds it;                        *)
(*  - numbers are integers; the calibration triangles of the inputs have   *)
(*    determinant -1, 0 or 1, so that every quotient the code forms is     *)
(*    exact.                                                               *)
(***************************************************************************)
EXTENDS Integers, Sequences, FiniteSets, TLC

VARIABLES
  doc,            \* the parsed document: its elements in preorder
  options,        \* [layers, debug]
  pc,             \* where the conversion is: find, calibrate, walk, returned, done, failed
  error,          \* what ended a failed conversion
  convertMatrix,  \* the calibration matrix, once derived
  mats,           \* the heap of mat23 objects the walk has created
  idx,            \* how many children of <svg> the forEach has taken
  cur,            \* the name of the layer the walk is adding to
  stack,          \* the elements still to visit: [el, xform], next one first
  layerByName,    \* the layers in insertion order: [name, items]
  visited,        \* history: each geometry pushed, with its element and transform
  warnings,       \* how many unhandled elements were reported
  layers,         \* the output list being assembled
  pos,            \* how many keys of layerByName the for-in has taken
  result,         \* what convertSVGToGeoJSON returned
  called          \* whether the caller's callback was invoked

vars == <<doc, options, pc, error, convertMatrix, mats, idx, cur, stack,
          layerByName, visited, warnings, layers, pos, result, called>>

----------------------------------------------------------------------------
(* Values *)

None == <<>>
Some(v) == <<v>>
IsSome(o) == Len(o) = 1
Val(o) == o[1]

RECURSIVE SortedSeq(_)
SortedSeq(S) ==
  IF S = {} THEN <<>>
  ELSE LET m == CHOOSE x \in S : \A y \in S : x <= y
       IN <<m>> \o SortedSeq(S \ {m})

RECURSIVE Reverse(_)
Reverse(s) == IF s = <<>> THEN <<>> ELSE Reverse(Tail(s)) \o <<Head(s)>>

RECURSIVE FlatMap(_, _)
FlatMap(F(_), s) == IF s = <<>> THEN <<>> ELSE F(Head(s)) \o FlatMap(F, Tail(s))

----------------------------------------------------------------------------
(* The parsed element tree (xml2js, explicitChildren, preserveChildrenOrder, xmlns) *)

Identity6 == <<1, 0, 0, 1, 0, 0>>

\* An element with no attribute at all: `$` is undefined.
Bare(name, depth) ==
  [name |-> name, local |-> name, prognoz |-> FALSE, depth |-> depth,
   has |-> FALSE, id |-> None, transform |-> None,
   num |-> <<0, 0, 0, 0>>, points |-> <<>>, d |-> <<>>]

\* An element carrying at least one attribute: `$` is an object.
El(name, depth) == [Bare(name, depth) EXCEPT !.has = TRUE]

\* The direct children of node i of document dc (0 is <svg>), in document order.
KidSet(dc, i) ==
  LET di == IF i = 0 THEN 0 ELSE dc[i].depth
  IN {j \in (i+1)..Len(dc) :
        /\ dc[j].depth = di + 1
        /\ \A k \in (i+1)..(j-1) : dc[k].depth > di}

Kids(dc, i) == SortedSeq(KidSet(dc, i))

\* el.$$ : undefined when the element has no child element.
Children(dc, i) == IF KidSet(dc, i) = {} THEN None ELSE Some(Kids(dc, i))

\* The parent of node j (0 for a child of <svg>).
Parent(dc, j) ==
  IF dc[j].depth = 1 THEN 0
  ELSE CHOOSE i \in 1..(j-1) : j \in KidSet(dc, i)

WellFormed(dc) ==
  /\ Len(dc) > 0 => dc[1].depth = 1
  /\ \A j \in 1..Len(dc) : dc[j].depth >= 1
  /\ \A j \in 1..(Len(dc)-1) : dc[j+1].depth <= dc[j].depth + 1

----------------------------------------------------------------------------
(* vmath: mat23 and vec2 (6-tuples <<m00, m01, m02, m03, m04, m05>>) *)

\* mat23.multiply(out, a, b): the product a * b, i.e. apply b first, then a.
Mat23Multiply(a, b) ==
  << a[1] * b[1] + a[3] * b[2],
     a[2] * b[1] + a[4] * b[2],
     a[1] * b[3] + a[3] * b[4],
     a[2] * b[3] + a[4] * b[4],
     a[1] * b[5] + a[3] * b[6] + a[5],
     a[2] * b[5] + a[4] * b[6] + a[6] >>

\* vec2.transformMat23(out, a, m)
transformMat23(p, m) ==
  << m[1] * p[1] + m[3] * p[2] + m[5],
     m[2] * p[1] + m[4] * p[2] + m[6] >>

\* coords(coords, xform): every point through xform, when there is one.
\* xform is a reference into the heap of matrices hp (0 = undefined).
coords(pts, xform, hp) ==
  IF xform # 0 THEN [k \in 1..Len(pts) |-> transformMat23(pts[k], hp[xform])]
  ELSE pts

----------------------------------------------------------------------------
(* transformation-matrix-js: Matrix, records [a, b, c, d, e, f] *)

Matrix(a, b, c, d, e, f) == [a |-> a, b |-> b, c |-> c, d |-> d, e |-> e, f |-> f]

\* A slip in the determinant: the products added instead of subtracted.
DeterminantPlus(m) == m.a * m.d + m.b * m.c

Determinant(m) == m.a * m.d - m.b * m.c

\* Matrix.inverse(): throws "Matrix not invertible." on a zero determinant.
IsInvertible(m) == Determinant(m) # 0

Inverse(m) ==
  LET dt == Determinant(m)
  IN Matrix(m.d \div dt, (-m.b) \div dt, (-m.c) \div dt, m.a \div dt,
            (m.c * m.f - m.d * m.e) \div dt,
            (-(m.a * m.f - m.b * m.e)) \div dt)

\* m1.multiply(m2) = m1 * m2
MatrixMultiply(m1, m2) ==
  Matrix(m1.a * m2.a + m1.c * m2.b,
         m1.b * m2.a + m1.d * m2.b,
         m1.a * m2.c + m1.c * m2.d,
         m1.b * m2.c + m1.d * m2.d,
         m1.a * m2.e + m1.c * m2.f + m1.e,
         m1.b * m2.e + m1.d * m2.f + m1.f)

\* The matrix taking (1,0), (0,1), (0,0) to the triangle's three points.
TriangleMatrix(t) ==
  Matrix(t[1] - t[5], t[2] - t[6], t[3] - t[5], t[4] - t[6], t[5], t[6])

\* Matrix.fromTriangles(t1, t2) = m2 * inverse(m1); None stands for the throw.
fromTriangles(t1, t2) ==
  IF IsInvertible(TriangleMatrix(t1))
  THEN Some(MatrixMultiply(TriangleMatrix(t2), Inverse(TriangleMatrix(t1))))
  ELSE None

\* matrix.applyToPoint(x, y)
applyToPoint(m, p) ==
  << p[1] * m.a + p[2] * m.c + m.e, p[1] * m.b + p[2] * m.d + m.f >>

\* getConvertMatrix(vertices): vertices are the three GeoItem nodes,
\* num = <<X, Y, Longitude, Latitude>>.
OriginalTriangle(dc, vs) ==
  << dc[vs[1]].num[1], dc[vs[1]].num[2], dc[vs[2]].num[1],
     dc[vs[2]].num[2], dc[vs[3]].num[1], dc[vs[3]].num[2] >>

TargetTriangle(dc, vs) ==
  << dc[vs[1]].num[3], dc[vs[1]].num[4], dc[vs[2]].num[3],
     dc[vs[2]].num[4], dc[vs[3]].num[3], dc[vs[3]].num[4] >>

getConvertMatrix(dc, vs) ==
  fromTriangles(OriginalTriangle(dc, vs), TargetTriangle(dc, vs))

\* convertCoordinates(coords, convertMatrix): a new array at every level.
ConvertRing(ring, m) == [k \in 1..Len(ring) |-> applyToPoint(m, ring[k])]

convertCoordinates(type, arr, m) ==
  IF type = "Point" THEN applyToPoint(m, arr)
  ELSE IF type = "LineString" THEN ConvertRing(arr, m)
  ELSE [r \in 1..Len(arr) |-> ConvertRing(arr[r], m)]

----------------------------------------------------------------------------
(* svg-path-to-polygons: pathDataToPolys, for move, line and close commands *)

Cmd(code, x, y) == [code |-> code, x |-> x, y |-> y]

\* One command added to the polylines built so far; start is the current
\* subpath's first point, to which a close command returns.
RECURSIVE FlattenFrom(_, _, _)
FlattenFrom(cmds, polys, start) ==
  IF cmds = <<>> THEN polys
  ELSE
    LET c == Head(cmds)
        n == Len(polys)
    IN IF c.code = "M"
       THEN FlattenFrom(Tail(cmds),
                        Append(polys, [pts |-> << <<c.x, c.y>> >>, closed |-> FALSE]),
                        <<c.x, c.y>>)
       ELSE IF n = 0 THEN FlattenFrom(Tail(cmds), polys, start)
       ELSE IF c.code = "Z"
       THEN FlattenFrom(Tail(cmds),
                        [polys EXCEPT ![n] = [pts |-> Append(@.pts, start),
                                              closed |-> TRUE]],
                        start)
       ELSE FlattenFrom(Tail(cmds),
                        [polys EXCEPT ![n].pts = Append(@, <<c.x, c.y>>)],
                        start)

pathDataToPolys(d) == FlattenFrom(d, <<>>, <<0, 0>>)

\* The closed path addCircleToLayer writes, flattened: it starts at
\* (cx, cy + r), each of its four curve segments ends on the next axis
\* point, and the close command repeats the start. The samples strictly
\* inside a curve segment are not integers and are left out.
CirclePolys(cx, cy, r) ==
  << [pts |-> << <<cx, cy + r>>, <<cx + r, cy>>, <<cx, cy - r>>,
                 <<cx - r, cy>>, <<cx, cy + r>>, <<cx, cy + r>> >>,
      closed |-> TRUE] >>

----------------------------------------------------------------------------
(* Winding *)

\* A slip in the sum: the ordinates subtracted instead of added.
RECURSIVE WindingSumMinus(_, _)
WindingSumMinus(pts, i) ==
  IF i > Len(pts) THEN 0
  ELSE LET p0 == pts[IF i = 1 THEN Len(pts) ELSE i - 1]
       IN (pts[i][1] - p0[1]) * (pts[i][2] - p0[2]) + WindingSumMinus(pts, i + 1)

\* The sum windingIsCorrect accumulates; the edge into pts[1] leaves pts[n].
RECURSIVE WindingSumFrom(_, _)
WindingSumFrom(pts, i) ==
  IF i > Len(pts) THEN 0
  ELSE LET p0 == pts[IF i = 1 THEN Len(pts) ELSE i - 1]
       IN (pts[i][1] - p0[1]) * (pts[i][2] + p0[2]) + WindingSumFrom(pts, i + 1)

WindingSum(pts) == WindingSumFrom(pts, 1)

\* windingIsCorrect(pts, shouldBeClockwise): the callers pass the ring index,
\* so the flag is falsy for ring 0 and truthy for every other ring.
windingIsCorrect(pts, shouldBeClockwise) ==
  IF shouldBeClockwise # 0 THEN WindingSum(pts) < 0 ELSE WindingSum(pts) > 0

\* if (!windingIsCorrect(ring, i)) ring = ring.reverse()
NormalizeRing(ring, i) ==
  IF windingIsCorrect(ring, i) THEN ring ELSE Reverse(ring)


----------------------------------------------------------------------------
(* Layer names and the key order of a JavaScript object *)

DigitChars == <<"0", "1", "2", "3", "4", "5", "6", "7", "8", "9">>

IsDigit(c) == \E k \in 1..10 : DigitChars[k] = c

DigitVal(c) == (CHOOSE k \in 1..10 : DigitChars[k] = c) - 1

\* String(n) for a non-negative integer n
RECURSIVE NumberToString(_)
NumberToString(n) ==
  IF n < 10 THEN <<DigitChars[n + 1]>>
  ELSE NumberToString(n \div 10) \o <<DigitChars[(n % 10) + 1]>>

RECURSIVE DecimalValue(_, _)
DecimalValue(s, acc) ==
  IF s = <<>> THEN acc ELSE DecimalValue(Tail(s), 10 * acc + DigitVal(Head(s)))

\* A property key that is a canonical array index: for-in lists these
\* first, in ascending numeric order, whatever the insertion order. (The
\* indices run to 2^32 - 2; the names here stay below ten digits.)
IsArrayIndex(s) ==
  /\ Len(s) > 0
  /\ Len(s) < 10
  /\ \A k \in 1..Len(s) : IsDigit(s[k])
  /\ (Len(s) = 1 \/ s[1] # "0")

\* value.replace(/_1_$/, '')
StripSuffix(s) ==
  LET n == Len(s)
  IN IF n >= 3 /\ s[n-2] = "_" /\ s[n-1] = "1" /\ s[n] = "_"
     THEN SubSeq(s, 1, n - 3) ELSE s

\* value.replace(/_/g, ' ')
UnderscoresToSpaces(s) == [k \in 1..Len(s) |-> IF s[k] = "_" THEN " " ELSE s[k]]

\* The layer name of the top-level group el, the i-th child of <svg> (from 0).
\* el.$.id is the attribute object, truthy whenever the attribute is present.
LayerName(el, i) ==
  IF IsSome(el.id) THEN UnderscoresToSpaces(StripSuffix(Val(el.id)))
  ELSE <<"L", "a", "y", "e", "r", " ">> \o NumberToString(i)

\* layerByName is the list of [name, items] in insertion order.
HasLayer(lbn, name) == \E k \in 1..Len(lbn) : lbn[k].name = name

LayerIndex(lbn, name) == CHOOSE k \in 1..Len(lbn) : lbn[k].name = name

\* if (!layerByName[name]) layerByName[name] = []
EnsureLayer(lbn, name) ==
  IF HasLayer(lbn, name) THEN lbn ELSE Append(lbn, [name |-> name, items |-> <<>>])

\* The positions of layerByName in the order `for (const name in layerByName)`
\* visits them.
RECURSIVE ByKeyValue(_, _)
ByKeyValue(lbn, S) ==
  IF S = {} THEN <<>>
  ELSE LET m == CHOOSE k \in S : \A l \in S :
                  DecimalValue(lbn[k].name, 0) <= DecimalValue(lbn[l].name, 0)
       IN <<m>> \o ByKeyValue(lbn, S \ {m})

ForInOrder(lbn) ==
  ByKeyValue(lbn, {k \in 1..Len(lbn) : IsArrayIndex(lbn[k].name)})
    \o SortedSeq({k \in 1..Len(lbn) : ~IsArrayIndex(lbn[k].name)})

----------------------------------------------------------------------------
(* Transform accumulation *)

\* combineTransform(el, xform). The matrices live in the heap hp and xform is
\* a reference (0 = undefined): mat23.multiply(xform, xform, mat) writes the
\* product into the matrix xform refers to and returns that same reference.
HasMatrix(el) == el.has /\ IsSome(el.transform) /\ Val(el.transform).matrix

combineTransform(el, xform, hp) ==
  IF HasMatrix(el)
  THEN IF xform # 0
       THEN [ref |-> xform,
             heap |-> [hp EXCEPT ![xform] = Mat23Multiply(@, Val(el.transform).n)]]
       ELSE [ref |-> Len(hp) + 1, heap |-> Append(hp, Val(el.transform).n)]
  ELSE [ref |-> xform, heap |-> hp]

----------------------------------------------------------------------------
(* Geometries *)

Label(kind, id, at) == [kind |-> kind, id |-> id, at |-> at]

\* addDebugId(geo, el, fallback): the label is stored as a property of the
\* coordinates array.
DebugId(el, kind, at) ==
  IF el.has /\ IsSome(el.id) THEN Label("#", Val(el.id), <<>>) ELSE Label(kind, <<>>, at)

Geo(type, arr, debugId) ==
  [type |-> type, coordinates |-> [arr |-> arr, debugId |-> debugId]]

addDebugId(geo, el, kind, at) ==
  [geo EXCEPT !.coordinates.debugId = Some(DebugId(el, kind, at))]

\* A slip in addPathData: a one-coordinate LineString left as it is.
addPathDataNoPoint(polys, xform, hp, checkWinding) ==
  LET rings == [k \in 1..Len(polys) |-> coords(polys[k].pts, xform, hp)]
  IN IF Len(polys) > 1 \/ polys[1].closed
     THEN Geo("Polygon",
              IF checkWinding
              THEN [k \in 1..Len(rings) |-> NormalizeRing(rings[k], k - 1)]
              ELSE rings,
              None)
     ELSE Geo("LineString", rings[1], None)

\* addPathData(layer, xform, pathData, checkWinding), from the flattened polys
addPathData(polys, xform, hp, checkWinding) ==
  LET rings == [k \in 1..Len(polys) |-> coords(polys[k].pts, xform, hp)]
  IN IF Len(polys) > 1 \/ polys[1].closed
     THEN Geo("Polygon",
              IF checkWinding
              THEN [k \in 1..Len(rings) |-> NormalizeRing(rings[k], k - 1)]
              ELSE rings,
              None)
     ELSE IF Len(rings[1]) = 1
     THEN Geo("Point", rings[1][1], None)
     ELSE Geo("LineString", rings[1], None)

RectGeo(el, xform, hp) ==
  LET x == el.num[1]
      y == el.num[2]
      w == el.num[3]
      h == el.num[4]
  IN addDebugId(
       Geo("Polygon",
           << coords(<< <<x, y>>, <<x, y + h>>, <<x + w, y + h>>,
                        <<x + w, y>>, <<x, y>> >>, xform, hp) >>,
           None),
       el, "rect @", <<x, y>>)

LineGeo(el, xform, hp) ==
  addDebugId(
    Geo("LineString",
        coords(<< <<el.num[1], el.num[2]>>, <<el.num[3], el.num[4]>> >>, xform, hp),
        None),
    el, "line @", <<el.num[1], el.num[2]>>)

CircleGeo(el, xform, hp) ==
  addDebugId(addPathData(CirclePolys(el.num[1], el.num[2], el.num[3]), xform, hp, FALSE),
             el, "circle @", <<el.num[1], el.num[2]>>)

\* The fallback label of a path quotes the start of its data.
PathGeo(el, xform, hp) ==
  addDebugId(addPathData(pathDataToPolys(el.d), xform, hp, TRUE),
             el, "path @", <<el.d[1].x, el.d[1].y>>)

\* The pairs read from the `points` tokens: a trailing odd token is dropped,
\* and the first point is pushed again at the end.
ParsePoints(nums) ==
  [k \in 1..(Len(nums) \div 2) |-> <<nums[2 * k - 1], nums[2 * k]>>]

ClosePoints(pts) == Append(pts, pts[1])

\* The fallback label quotes pts[0] and pts[1] as they are after the
\* transformation and the reversal, both of which work in place.
PolygonGeo(el, xform, hp) ==
  LET ring == NormalizeRing(coords(ClosePoints(ParsePoints(el.points)), xform, hp), 0)
  IN addDebugId(Geo("Polygon", <<ring>>, None), el, "polygon @", ring[1] \o ring[2])

PolylineGeo(el, xform, hp) ==
  LET line == coords(ClosePoints(ParsePoints(el.points)), xform, hp)
  IN addDebugId(Geo("LineString", line, None), el, "polyline @", line[1] \o line[2])


----------------------------------------------------------------------------
(* The conversion: loadFromString and convertSVGToGeoJSON, step by step *)

\* svg.$$.find(e => e.$ns && e.$ns.uri == 'http://www.prognoz.ru' && e.$ns.local == 'MetaInfo')
FirstWhere(dc, ks, P(_)) ==
  LET hit == {k \in 1..Len(ks) : P(dc[ks[k]])}
  IN IF hit = {} THEN None ELSE Some(ks[CHOOSE k \in hit : \A l \in hit : k <= l])

IsMetaInfo(e) == e.prognoz /\ e.local = "MetaInfo"
IsGeo(e) == e.local = "Geo"
IsGeoItem(e) == e.local = "GeoItem"

FilterGeoItems(dc, ks) ==
  SortedSeq({ks[k] : k \in {l \in 1..Len(ks) : IsGeoItem(dc[ks[l]])}})

\* Lines 19-21: what the three lookups end in. "TypeError" is a read of
\* `.find` or `.filter` on an undefined children list.
FindVertices(dc) ==
  IF ~IsSome(Children(dc, 0)) THEN [err |-> "TypeError", vs |-> None]
  ELSE
    LET meta == FirstWhere(dc, Kids(dc, 0), IsMetaInfo)
    IN IF ~IsSome(meta) THEN [err |-> "", vs |-> None]
       ELSE IF ~IsSome(Children(dc, Val(meta))) THEN [err |-> "TypeError", vs |-> None]
       ELSE
         LET geo == FirstWhere(dc, Kids(dc, Val(meta)), IsGeo)
         IN IF ~IsSome(geo) THEN [err |-> "", vs |-> None]
            ELSE IF ~IsSome(Children(dc, Val(geo)))
            THEN [err |-> "TypeError", vs |-> None]
            ELSE [err |-> "", vs |-> Some(FilterGeoItems(dc, Kids(dc, Val(geo))))]

walkVars == <<mats, idx, cur, stack, layerByName, visited, warnings>>
outVars == <<layers, pos, result, called>>

Throw(e) ==
  /\ pc' = "failed"
  /\ error' = e
  /\ UNCHANGED <<doc, options, convertMatrix, walkVars, outVars>>

\* Lines 19-25: find the calibration block, or print the calibration message
\* and exit with status 1.
FindGeolocation ==
  /\ pc = "find"
  /\ LET f == FindVertices(doc)
     IN IF f.err # "" THEN Throw(f.err)
        ELSE IF ~IsSome(f.vs) \/ Len(Val(f.vs)) # 3 THEN Throw("exit 1")
        ELSE /\ pc' = "calibrate"
             /\ UNCHANGED <<doc, options, error, convertMatrix, walkVars, outVars>>

\* Line 26: getConvertMatrix(trangleVertices)
Calibrate ==
  /\ pc = "calibrate"
  /\ LET vs == Val(FindVertices(doc).vs)
     IN IF \E k \in 1..3 : ~doc[vs[k]].has THEN Throw("TypeError")
        ELSE IF ~IsSome(getConvertMatrix(doc, vs)) THEN Throw("Matrix not invertible.")
        ELSE /\ convertMatrix' = getConvertMatrix(doc, vs)
             /\ pc' = "walk"
             /\ UNCHANGED <<doc, options, error, walkVars, outVars>>

Frames(ks, xform) == [k \in 1..Len(ks) |-> [el |-> ks[k], xform |-> xform]]

TopKids == Kids(doc, 0)

\* Lines 30-35: a top-level group in layer mode opens (or reopens) its layer
\* and its children are walked with the group's own transform.
TopLevelGroup ==
  /\ pc = "walk" /\ stack = <<>> /\ idx < Len(TopKids)
  /\ LET j == TopKids[idx + 1]
         el == doc[j]
     IN /\ options.layers /\ el.name = "g"
        /\ IF ~el.has \/ ~IsSome(Children(doc, j)) THEN Throw("TypeError")
           ELSE LET name == LayerName(el, idx)
                    x == combineTransform(el, 0, mats)
                IN /\ layerByName' = EnsureLayer(layerByName, name)
                   /\ cur' = name
                   /\ mats' = x.heap
                   /\ stack' = Frames(Kids(doc, j), x.ref)
                   /\ idx' = idx + 1
                   /\ UNCHANGED <<doc, options, pc, error, convertMatrix, visited,
                                  warnings, outVars>>

\* Lines 36-40: anything else goes to the unnamed layer, with no transform yet.
TopLevelElement ==
  /\ pc = "walk" /\ stack = <<>> /\ idx < Len(TopKids)
  /\ LET j == TopKids[idx + 1]
     IN /\ ~(options.layers /\ doc[j].name = "g")
        /\ layerByName' = EnsureLayer(layerByName, <<>>)
        /\ cur' = <<>>
        /\ stack' = <<[el |-> j, xform |-> 0]>>
        /\ idx' = idx + 1
        /\ UNCHANGED <<doc, options, pc, error, convertMatrix, mats, visited,
                       warnings, outVars>>

\* addElementToLayer(el, layer, xform) for the frame on top of the stack
Top == Head(stack)
TopEl == doc[Top.el]
X == combineTransform(TopEl, Top.xform, mats)

Visiting(names) == pc = "walk" /\ stack # <<>> /\ TopEl.name \in names

\* layer.push(geo)
Push(geo) ==
  /\ mats' = X.heap
  /\ stack' = Tail(stack)
  /\ layerByName' = [layerByName EXCEPT ![LayerIndex(layerByName, cur)].items = Append(@, geo)]
  /\ visited' = Append(visited,
                       [el |-> Top.el, name |-> cur, geo |-> geo,
                        xform |-> IF X.ref = 0 THEN None ELSE Some(X.heap[X.ref])])
  /\ UNCHANGED <<doc, options, pc, error, convertMatrix, idx, cur, warnings, outVars>>

\* The element adds nothing to the layer.
Skip ==
  /\ mats' = X.heap
  /\ stack' = Tail(stack)
  /\ UNCHANGED <<doc, options, pc, error, convertMatrix, idx, cur, layerByName,
                 visited, warnings, outVars>>

\* Lines 141-145
addGroupToLayer ==
  /\ Visiting({"g"})
  /\ IF ~IsSome(Children(doc, Top.el)) THEN Throw("TypeError")
     ELSE /\ mats' = X.heap
          /\ stack' = Frames(Kids(doc, Top.el), X.ref) \o Tail(stack)
          /\ UNCHANGED <<doc, options, pc, error, convertMatrix, idx, cur,
                         layerByName, visited, warnings, outVars>>

\* Lines 147-154; attrs(el, ...) reads el.$[n] and throws when el.$ is undefined
addPathToLayer ==
  /\ Visiting({"path"})
  /\ IF ~TopEl.has THEN Throw("TypeError")
     ELSE IF TopEl.d = <<>> THEN Skip
     ELSE IF pathDataToPolys(TopEl.d) = <<>> THEN Throw("TypeError")
     ELSE Push(PathGeo(TopEl, X.ref, X.heap))

\* Lines 156-171
addRectToLayer ==
  /\ Visiting({"rect"})
  /\ IF ~TopEl.has THEN Throw("TypeError")
     ELSE Push(RectGeo(TopEl, X.ref, X.heap))

\* Lines 173-181
addLineToLayer ==
  /\ Visiting({"line"})
  /\ IF ~TopEl.has THEN Throw("TypeError")
     ELSE Push(LineGeo(TopEl, X.ref, X.heap))

\* Lines 183-196
addCircleToLayer ==
  /\ Visiting({"circle"})
  /\ IF ~TopEl.has THEN Throw("TypeError")
     ELSE IF TopEl.num[3] = 0 THEN Skip
     ELSE Push(CircleGeo(TopEl, X.ref, X.heap))

\* Lines 198-201
addEllipseToLayer ==
  /\ Visiting({"ellipse"})
  /\ Throw("exit 2")

\* Lines 203-219
addPolygonToLayer ==
  /\ Visiting({"polygon"})
  /\ IF ~TopEl.has THEN Throw("TypeError")
     ELSE IF TopEl.points = <<>> THEN Skip
     ELSE IF ParsePoints(TopEl.points) = <<>> THEN Throw("TypeError")
     ELSE Push(PolygonGeo(TopEl, X.ref, X.heap))

\* Lines 221-234
addPolylineToLayer ==
  /\ Visiting({"polyline"})
  /\ IF ~TopEl.has THEN Throw("TypeError")
     ELSE IF TopEl.points = <<>> THEN Skip
     ELSE IF ParsePoints(TopEl.points) = <<>> THEN Throw("TypeError")
     ELSE Push(PolylineGeo(TopEl, X.ref, X.heap))

Handled == {"g", "path", "rect", "line", "circle", "ellipse", "polygon", "polyline"}
Expected == {"style", "MetaInfo", "defs", "use"}

\* Lines 130-135: elements that have no impact on the output
IgnoreElement ==
  /\ Visiting(Expected)
  /\ Skip

\* Lines 136-137
WarnUnhandled ==
  /\ pc = "walk" /\ stack # <<>> /\ TopEl.name \notin Handled \cup Expected
  /\ mats' = X.heap
  /\ stack' = Tail(stack)
  /\ warnings' = warnings + 1
  /\ UNCHANGED <<doc, options, pc, error, convertMatrix, idx, cur, layerByName,
                 visited, outVars>>

\* Lines 53-61: the features of one layer. Each geometry's coordinates are
\* replaced by the array convertCoordinates builds, and the svgID is read
\* from that array.
ConvertData(data, m) ==
  [data EXCEPT !.coordinates =
     [arr |-> convertCoordinates(data.type, data.coordinates.arr, m), debugId |-> None]]

Feature(data, m, debug) ==
  [type |-> "Feature",
   properties |-> IF debug
                  THEN [null |-> FALSE, svgID |-> ConvertData(data, m).coordinates.debugId]
                  ELSE [null |-> TRUE, svgID |-> None],
   geometry |-> ConvertData(data, m)]

FeatureCollection(items, m, debug) ==
  [type |-> "FeatureCollection",
   features |-> [k \in 1..Len(items) |-> Feature(items[k], m, debug)]]

WalkDone == pc = "walk" /\ stack = <<>> /\ idx = Len(TopKids)

\* Lines 45-64: one turn of `for (const name in layerByName)`
AssembleLayer ==
  /\ WalkDone /\ pos < Len(layerByName)
  /\ LET k == ForInOrder(layerByName)[pos + 1]
         m == Val(convertMatrix)
     IN IF layerByName[k].items = <<>>
        THEN UNCHANGED <<layers, layerByName>>
        ELSE /\ layers' = Append(layers,
                                 [name |-> layerByName[k].name,
                                  geo |-> FeatureCollection(layerByName[k].items, m,
                                                            options.debug)])
             /\ layerByName' =
                  [layerByName EXCEPT ![k].items =
                     [n \in 1..Len(@) |-> ConvertData(@[n], m)]]
  /\ pos' = pos + 1
  /\ UNCHANGED <<doc, options, pc, error, convertMatrix, mats, idx, cur, stack,
                 visited, warnings, result, called>>

\* Line 66: return options.layers ? layers : layers[0].geo
Return ==
  /\ WalkDone /\ pos = Len(layerByName)
  /\ IF ~options.layers /\ layers = <<>> THEN Throw("TypeError")
     ELSE /\ result' = Some(IF options.layers
                            THEN [isList |-> TRUE, list |-> layers, geo |-> None]
                            ELSE [isList |-> FALSE, list |-> <<>>,
                                  geo |-> Some(layers[1].geo)])
          /\ pc' = "returned"
          /\ UNCHANGED <<doc, options, error, convertMatrix, walkVars, layers, pos,
                         called>>

\* Line 318: callback(convertSVGToGeoJSON(doc, options))
Callback ==
  /\ pc = "returned"
  /\ called' = TRUE
  /\ pc' = "done"
  /\ UNCHANGED <<doc, options, error, convertMatrix, walkVars, layers, pos, result>>

Next ==
  \/ FindGeolocation
  \/ Calibrate
  \/ TopLevelGroup
  \/ TopLevelElement
  \/ addGroupToLayer
  \/ addPathToLayer
  \/ addRectToLayer
  \/ addLineToLayer
  \/ addCircleToLayer
  \/ addEllipseToLayer
  \/ addPolygonToLayer
  \/ addPolylineToLayer
  \/ IgnoreElement
  \/ WarnUnhandled
  \/ AssembleLayer
  \/ Return
  \/ Callback

\* The state convertSVGToGeoJSON starts in, for the document and options dc, op.
Start(dc, op) ==
  /\ doc = dc
  /\ options = op
  /\ pc = "find"
  /\ error = ""
  /\ convertMatrix = None
  /\ mats = <<>>
  /\ idx = 0
  /\ cur = <<>>
  /\ stack = <<>>
  /\ layerByName = <<>>
  /\ visited = <<>>
  /\ warnings = 0
  /\ layers = <<>>
  /\ pos = 0
  /\ result = None
  /\ called = FALSE

----------------------------------------------------------------------------
(* Documents *)

MetaInfoEl == [El("MetaInfo", 1) EXCEPT !.prognoz = TRUE]
GeoEl == Bare("Geo", 2)
GeoItem(src, dst, k) ==
  [El("GeoItem", 3) EXCEPT !.num = <<src[2*k - 1], src[2*k], dst[2*k - 1], dst[2*k]>>]

\* <MetaInfo><Geo> with one GeoItem per correspondence of src and dst
MetaBlock(src, dst) ==
  <<MetaInfoEl, GeoEl>> \o [k \in 1..(Len(src) \div 2) |-> GeoItem(src, dst, k)]

UnitTriangle == <<0, 0, 1, 0, 0, 1>>
\* The calibration that leaves every coordinate as it is
Plain == MetaBlock(UnitTriangle, UnitTriangle)

WithId(el, id) == [el EXCEPT !.has = TRUE, !.id = Some(id)]
WithMatrix(el, n) == [el EXCEPT !.has = TRUE, !.transform = Some([matrix |-> TRUE, n |-> n])]
\* a transform attribute that is not of the matrix(...) form
WithOtherTransform(el) ==
  [el EXCEPT !.has = TRUE, !.transform = Some([matrix |-> FALSE, n |-> Identity6])]
WithNum(el, num) == [el EXCEPT !.has = TRUE, !.num = num]
WithPoints(el, nums) == [el EXCEPT !.has = TRUE, !.points = nums]
WithData(el, d) == [el EXCEPT !.has = TRUE, !.d = d]

Rect(depth, x, y, w, h) == WithNum(El("rect", depth), <<x, y, w, h>>)

Translate == <<1, 0, 0, 1, 1, 0>>
Scale == <<2, 0, 0, 1, 0, 0>>
Mirror == <<-1, 0, 0, 1, 0, 0>>

AllOptions == [layers : BOOLEAN, debug : BOOLEAN]

\* One drawing of each kind the walk tells apart
KindDrawings ==
  { <<El("g", 1), Rect(2, 0, 0, 1, 1)>>,
    <<WithId(El("g", 1), <<"a">>), El("g", 2), Rect(3, 0, 0, 1, 1)>>,
    <<El("g", 1)>>,
    <<WithData(El("path", 1), <<Cmd("M", 0, 0), Cmd("L", 1, 1)>>)>>,
    <<El("path", 1)>>,
    <<Rect(1, 0, 0, 1, 1)>>,
    <<WithId(Rect(1, 0, 0, 1, 1), <<"r">>)>>,
    <<WithNum(El("line", 1), <<0, 0, 1, 1>>)>>,
    <<WithNum(El("circle", 1), <<0, 0, 1, 0>>)>>,
    <<WithNum(El("circle", 1), <<1, 1, 0, 0>>)>>,
    <<El("ellipse", 1)>>,
    <<WithPoints(El("polygon", 1), <<0, 0, 1, 0, 1, 1>>)>>,
    <<WithId(WithPoints(El("polygon", 1), <<0, 0, 1, 0, 1, 1>>), <<"p">>)>>,
    <<El("polygon", 1)>>,
    <<WithPoints(El("polyline", 1), <<0, 0, 1, 0, 1, 1>>)>>,
    <<El("polyline", 1)>>,
    <<El("style", 1)>>,
    <<El("defs", 1), Rect(2, 0, 0, 1, 1)>>,
    <<El("use", 1)>>,
    <<El("text", 1)>>,
    <<>> }

\* Drawings whose elements carry no attribute, or a single `points` token
OddDrawings ==
  { <<Bare("g", 1), Rect(2, 0, 0, 1, 1)>>,
    <<Bare("path", 1)>>,
    <<Bare("rect", 1)>>,
    <<Bare("line", 1)>>,
    <<Bare("circle", 1)>>,
    <<Bare("polygon", 1)>>,
    <<Bare("polyline", 1)>>,
    <<WithPoints(El("polygon", 1), <<1>>)>>,
    <<WithPoints(El("polyline", 1), <<1>>)>>,
    <<WithOtherTransform(El("g", 1)), WithOtherTransform(Rect(2, 0, 0, 1, 1))>> }

InitKinds == \E dr \in KindDrawings, op \in AllOptions : Start(Plain \o dr, op)

SpecKinds == InitKinds /\ [][Next]_vars

----------------------------------------------------------------------------
(* Paths and polygons over a grid of points, under several calibrations *)

MaxCoord == 1
MaxPts == 3

YCoords == {0, 1}
Grid == (0..MaxCoord) \X YCoords
PointSeqs == UNION {[1..n -> Grid] : n \in 1..MaxPts}

\* The path data "M p1 L p2 ... L pn", closed by "Z" or not
Subpath(pts, closed) ==
  [k \in 1..Len(pts) |-> Cmd(IF k = 1 THEN "M" ELSE "L", pts[k][1], pts[k][2])]
    \o (IF closed THEN <<Cmd("Z", 0, 0)>> ELSE <<>>)

\* A second subpath: an open segment, and a triangle closed in either direction
SecondSubpaths ==
  { Subpath(<< <<2, 2>>, <<3, 3>> >>, FALSE),
    Subpath(<< <<2, 2>>, <<3, 2>>, <<2, 3>> >>, TRUE),
    Subpath(<< <<2, 2>>, <<2, 3>>, <<3, 2>> >>, TRUE) }

\* x -> 2x + 1, y -> y + 1: keeps orientation
Stretch == MetaBlock(UnitTriangle, <<1, 1, 3, 1, 1, 2>>)
\* y -> -y: drawing y grows downwards, latitude upwards; reverses orientation
Flip == MetaBlock(UnitTriangle, <<0, 0, 1, 0, 0, -1>>)

Calibrations == {Stretch, Flip}

Flatten2(pts) == [k \in 1..(2 * Len(pts)) |-> pts[(k + 1) \div 2][2 - (k % 2)]]

PathElement(pts, closed, more) == WithData(El("path", 1), Subpath(pts, closed) \o more)

PolygonElement(pts, tail) == WithPoints(El("polygon", 1), Flatten2(pts) \o tail)

\* The element alone under a calibration, as it is or mirrored by its own transform
Drawn(cal, e, mirrored) == cal \o <<IF mirrored THEN WithMatrix(e, Mirror) ELSE e>>

DefaultOptions == [layers |-> FALSE, debug |-> FALSE]

InitPaths ==
  \/ InitKinds
  \/ \E cal \in Calibrations, pts \in PointSeqs, cl \in BOOLEAN, mirrored \in BOOLEAN :
       Start(Drawn(cal, PathElement(pts, cl, <<>>), mirrored), DefaultOptions)
  \/ \E pts \in PointSeqs, cl \in BOOLEAN, snd \in SecondSubpaths :
       Start(Drawn(Flip, PathElement(pts, cl, snd), FALSE), DefaultOptions)
  \/ \E cal \in Calibrations, pts \in PointSeqs, cl \in BOOLEAN :
       Start(Drawn(cal,
                   WithData(El("path", 1),
                            Subpath(<< <<2, 2>>, <<3, 2>>, <<2, 3>> >>, TRUE) \o Subpath(pts, cl)),
                   FALSE),
             DefaultOptions)
  \/ \E cal \in Calibrations, pts \in PointSeqs, tail \in {<<>>, <<1>>}, mirrored \in BOOLEAN :
       Start(Drawn(cal, PolygonElement(pts, tail), mirrored), DefaultOptions)

SpecPaths == InitPaths /\ [][Next]_vars

----------------------------------------------------------------------------
(* What the properties below speak of *)

\* Twice the signed area of a ring (closing edge included): negative for
\* the orientation of (0,0) -> (0,1) -> (1,1) -> (1,0) -> (0,0).
RECURSIVE TwiceAreaFrom(_, _)
TwiceAreaFrom(r, i) ==
  IF i > Len(r) THEN 0
  ELSE LET p == r[IF i = 1 THEN Len(r) ELSE i - 1]
       IN (p[1] * r[i][2] - r[i][1] * p[2]) + TwiceAreaFrom(r, i + 1)

TwiceArea(r) == TwiceAreaFrom(r, 1)
Clockwise(r) == TwiceArea(r) < 0
CounterClockwise(r) == TwiceArea(r) > 0

\* The geometries pushed to the layer called name, in the order pushed
Produced(name) == SelectSeq(visited, LAMBDA v : v.name = name)

\* The output as a list of [name, geo], whichever mode produced it
Entries ==
  IF ~IsSome(result) THEN <<>>
  ELSE IF Val(result).isList THEN Val(result).list
  ELSE <<[name |-> <<>>, geo |-> Val(Val(result).geo)]>>

\* Every feature of the output with the visit that produced its geometry
Emitted ==
  UNION {{[f |-> Entries[e].geo.features[k], v |-> Produced(Entries[e].name)[k]] :
            k \in 1..Len(Entries[e].geo.features)} : e \in 1..Len(Entries)}

FromElement(x, names) == doc[x.v.el].name \in names

\* A polyline through the transform a visit applied, then through the calibration
Local(pts, v) ==
  IF IsSome(v.xform) THEN [k \in 1..Len(pts) |-> transformMat23(pts[k], Val(v.xform))]
  ELSE pts

Target(pts, v) == ConvertRing(Local(pts, v), Val(convertMatrix))

----------------------------------------------------------------------------
(* Properties of path and polygon conversion *)

\* C2: in the output, every Polygon derived from a path or polygon element
\* has ring 0 clockwise and every later ring counter-clockwise, measured on
\* the emitted (longitude, latitude) coordinates, for every calibration and
\* every ring of non-zero signed area.
C2_WindingInTargetSpace ==
  \A x \in Emitted :
    (FromElement(x, {"path", "polygon"}) /\ x.f.geometry.type = "Polygon") =>
      \A k \in 1..Len(x.f.geometry.coordinates.arr) :
        LET r == x.f.geometry.coordinates.arr[k]
        IN TwiceArea(r) # 0 => IF k = 1 THEN Clockwise(r) ELSE CounterClockwise(r)

\* C3: every ring of every Polygon in the output is closed: its first
\* coordinate equals its last.
C3_RingsClosed ==
  \A x \in Emitted :
    x.f.geometry.type = "Polygon" =>
      \A k \in 1..Len(x.f.geometry.coordinates.arr) :
        LET r == x.f.geometry.coordinates.arr[k]
        IN r[1] = r[Len(r)]

\* C9: a path whose data flattens to a non-empty list of polylines is
\* emitted as a Polygon with one ring per polyline, in flattener order, iff
\* there are several polylines or the single one is closed; otherwise as a
\* LineString of the single polyline's coordinates, or as a Point when that
\* polyline has one coordinate; so no one-coordinate LineString is emitted.
C9_PathGeometryKind ==
  /\ \A x \in Emitted :
       FromElement(x, {"path"}) =>
         LET polys == pathDataToPolys(doc[x.v.el].d)
             g == x.f.geometry
         IN /\ (g.type = "Polygon") <=> (Len(polys) > 1 \/ polys[1].closed)
            /\ g.type = "Polygon" =>
                 /\ Len(g.coordinates.arr) = Len(polys)
                 /\ \A k \in 1..Len(polys) :
                      g.coordinates.arr[k] \in
                        {Target(polys[k].pts, x.v), Reverse(Target(polys[k].pts, x.v))}
            /\ g.type # "Polygon" =>
                 IF Len(polys[1].pts) = 1
                 THEN g.type = "Point" /\ g.coordinates.arr = Target(polys[1].pts, x.v)[1]
                 ELSE g.type = "LineString"
                      /\ g.coordinates.arr = Target(polys[1].pts, x.v)
  /\ \A x \in Emitted :
       x.f.geometry.type = "LineString" => Len(x.f.geometry.coordinates.arr) # 1

\* A one-point open path has been emitted, as a Point.
C9_Witness ==
  \E x \in Emitted :
    /\ FromElement(x, {"path"})
    /\ Len(pathDataToPolys(doc[x.v.el].d)) = 1
    /\ Len(pathDataToPolys(doc[x.v.el].d)[1].pts) = 1
    /\ x.f.geometry.type = "Point"

\* The ring the winding step was given as ring k of the visit v
RingBefore(v, k) ==
  IF doc[v.el].name = "polygon"
  THEN Local(ClosePoints(ParsePoints(doc[v.el].points)), v)
  ELSE Local(pathDataToPolys(doc[v.el].d)[k].pts, v)

WindingChecked(v) ==
  doc[v.el].name \in {"path", "polygon"} /\ v.geo.type = "Polygon"

\* C10: the winding step is idempotent: a ring of non-zero area that has been
\* through the step once (tested for its ring index, reversed if the test
\* failed) is left as it is by a second application.
C10_WindingIdempotent ==
  \A n \in 1..Len(visited) :
    WindingChecked(visited[n]) =>
      \A k \in 1..Len(visited[n].geo.coordinates.arr) :
        LET r == visited[n].geo.coordinates.arr[k]
        IN TwiceArea(r) # 0 =>
             /\ r = NormalizeRing(RingBefore(visited[n], k), k - 1)
             /\ windingIsCorrect(r, k - 1)
             /\ NormalizeRing(r, k - 1) = r

\* The first application has reversed a ring of non-zero area.
C10_Witness ==
  \E n \in 1..Len(visited) :
    /\ WindingChecked(visited[n])
    /\ \E k \in 1..Len(visited[n].geo.coordinates.arr) :
         LET r == visited[n].geo.coordinates.arr[k]
         IN /\ TwiceArea(r) # 0
            /\ r # RingBefore(visited[n], k)
            /\ r = Reverse(RingBefore(visited[n], k))

----------------------------------------------------------------------------
(* Trees of groups and rectangles with transforms *)

MaxNodes == 3

Transforms == <<Translate, Scale>>

\* A group or a rectangle at the given depth; t = 0 for no transform
TreeNode(kind, t, depth) ==
  LET e == IF kind = "g" THEN El("g", depth) ELSE Rect(depth, 0, 0, 1, 1)
  IN IF t = 0 THEN e ELSE WithMatrix(e, Transforms[t])

InitTrees ==
  \/ InitKinds
  \/ \E dr \in OddDrawings, op \in AllOptions : Start(Plain \o dr, op)
  \/ \E n \in 1..MaxNodes, layered \in BOOLEAN :
       \E ks \in [1..n -> {"g", "rect"}], ts \in [1..n -> 0..2], ds \in [1..n -> 1..n] :
         LET dr == [k \in 1..n |-> TreeNode(ks[k], ts[k], ds[k])]
         IN /\ WellFormed(dr)
            /\ Start(Plain \o dr, [layers |-> layered, debug |-> FALSE])

SpecTrees == InitTrees /\ [][Next]_vars

\* The nodes from the child of <svg> down to node j
RECURSIVE PathTo(_, _)
PathTo(dc, j) == IF j = 0 THEN <<>> ELSE Append(PathTo(dc, Parent(dc, j)), j)

\* parent o child over the matrices met on the way down, if any
RECURSIVE ComposeDown(_, _, _)
ComposeDown(dc, path, acc) ==
  IF path = <<>> THEN acc
  ELSE LET e == dc[Head(path)]
       IN ComposeDown(dc, Tail(path),
                      IF ~HasMatrix(e) THEN acc
                      ELSE IF IsSome(acc)
                      THEN Some(Mat23Multiply(Val(acc), Val(e.transform).n))
                      ELSE Some(Val(e.transform).n))

\* C1: the transform applied to a leaf's coordinates is the composition, in
\* root-to-leaf order, of exactly the matrix transforms of its ancestor
\* groups and of the leaf itself, whatever its siblings carry.
C1_TransformIsAncestorComposition ==
  \A n \in 1..Len(visited) :
    visited[n].xform = ComposeDown(doc, PathTo(doc, visited[n].el), None)

----------------------------------------------------------------------------
(* Top-level groups as layers *)

MaxTop == 3

Ids == { <<"a">>, <<"b">>, <<"a", "_", "1", "_">>, <<"2">>, <<"1", "0">> }

\* What a child of <svg> may be here: a rectangle, or a group (named or not)
\* holding a rectangle, a nested group with a rectangle, or a style element
TopItems ==
  {<<Rect(1, 0, 0, 1, 1)>>}
    \cup {<<g, Rect(2, 0, 0, 1, 1)>> : g \in {El("g", 1)} \cup {WithId(El("g", 1), id) : id \in Ids}}
    \cup {<<WithId(El("g", 1), id), El("g", 2), Rect(3, 1, 1, 1, 1), Rect(2, 0, 0, 1, 1)>> :
            id \in {<<"a">>, <<"2">>}}
    \cup {<<WithId(El("g", 1), <<"b">>), El("style", 2)>>}

InitLayers ==
  \/ InitKinds
  \/ \E n \in 1..MaxTop, dbg \in BOOLEAN :
       \E items \in [1..n -> TopItems] :
         Start(Plain \o FlatMap(LAMBDA i : i, items), [layers |-> TRUE, debug |-> dbg])

SpecLayers == InitLayers /\ [][Next]_vars

\* The layer a child of <svg> feeds: its group name, or the unnamed layer
LayerOf(dc, k) ==
  IF dc[Kids(dc, 0)[k]].name = "g" THEN LayerName(dc[Kids(dc, 0)[k]], k - 1) ELSE <<>>

\* The names in the order they first occur among the children of <svg>,
\* those that received no geometry left out
RECURSIVE FirstOccurrences(_, _, _)
FirstOccurrences(dc, k, seen) ==
  IF k > Len(Kids(dc, 0)) THEN <<>>
  ELSE LET name == LayerOf(dc, k)
       IN IF name \in seen \/ Produced(name) = <<>>
          THEN FirstOccurrences(dc, k + 1, seen)
          ELSE <<name>> \o FirstOccurrences(dc, k + 1, seen \cup {name})

\* The position among the children of <svg> of node j's top-level ancestor
TopPosition(dc, j) ==
  CHOOSE k \in 1..Len(Kids(dc, 0)) : Kids(dc, 0)[k] = PathTo(dc, j)[1]

\* C7: in layer mode the result lists one entry per layer name that received
\* a geometry, in the order the names first occur among the children of
\* <svg>; each entry holds the geometries of the descendants of the top-level
\* groups of that name, in document order; top-level leaves feed ''.
C7_LayersInDocumentOrder ==
  (IsSome(result) /\ options.layers) =>
    /\ [e \in 1..Len(Entries) |-> Entries[e].name] = FirstOccurrences(doc, 1, {})
    /\ \A e \in 1..Len(Entries) :
         Len(Entries[e].geo.features) = Len(Produced(Entries[e].name))
    /\ \A n \in 1..Len(visited) :
         /\ visited[n].name = LayerOf(doc, TopPosition(doc, visited[n].el))
         /\ \A m \in 1..(n - 1) : visited[m].el < visited[n].el

----------------------------------------------------------------------------
(* Debug labels and empty output *)

\* C4: with the debug option on, every feature's properties hold under svgID
\* the label recorded for the element that produced its geometry; with the
\* option off the properties are null.
C4_DebugLabelKept ==
  \A x \in Emitted :
    IF options.debug
    THEN /\ ~x.f.properties.null
         /\ x.f.properties.svgID = x.v.geo.coordinates.debugId
    ELSE x.f.properties.null

NoEllipse(dc) == \A j \in 1..Len(dc) : dc[j].name # "ellipse"

\* C8: in default mode a document with valid calibration and no ellipse is
\* converted without error, also when its traversal emits no geometry.
C8_DefaultModeNeverFails ==
  (~options.layers /\ IsSome(convertMatrix) /\ NoEllipse(doc)) =>
    /\ pc # "failed"
    /\ pc \in {"returned", "done"} => IsSome(result) /\ ~Val(result).isList

----------------------------------------------------------------------------
(* Calibration blocks of every shape *)

MaxGeoItems == 4
MaxSrc == 2

SrcGrid == (0..MaxSrc) \X YCoords

\* Five correspondences; the first three are those of Plain
Sources == <<0, 0, 1, 0, 0, 1, 1, 1, 2, 1>>

Drawing == <<Rect(1, 0, 0, 1, 1)>>

\* <MetaInfo><Geo> holding a note and the first k correspondences
GeoWith(k) ==
  <<MetaInfoEl, GeoEl, Bare("Note", 3)>>
    \o [n \in 1..k |-> GeoItem(Sources, Sources, n)]

MetaShapes ==
  { <<>>,
    <<[MetaInfoEl EXCEPT !.prognoz = FALSE]>> \o Tail(Plain),
    <<MetaInfoEl>>,
    <<MetaInfoEl, Bare("Other", 2)>>,
    <<MetaInfoEl, El("Other", 2), GeoEl, Bare("Note", 3)>>,
    <<MetaInfoEl, GeoEl>>,
    <<MetaInfoEl, GeoEl, Bare("GeoItem", 3), Bare("GeoItem", 3), Bare("GeoItem", 3)>> }
    \cup {GeoWith(k) : k \in 0..MaxGeoItems}

\* Twice the signed area of the triangle p1 p2 p3
Cross(p1, p2, p3) ==
  (p2[1] - p1[1]) * (p3[2] - p1[2]) - (p3[1] - p1[1]) * (p2[2] - p1[2])

InitMeta ==
  \/ InitKinds
  \/ \E mb \in MetaShapes, dr \in {<<>>, Drawing}, op \in AllOptions : Start(mb \o dr, op)
  \/ \E p1 \in SrcGrid, p2 \in SrcGrid, p3 \in SrcGrid,
        dst \in {UnitTriangle, <<0, 0, 1, 0, 0, -1>>}, op \in AllOptions :
       /\ Cross(p1, p2, p3) \in {-1, 0, 1}
       /\ Start(MetaBlock(p1 \o p2 \o p3, dst) \o Drawing, op)

SpecMeta == InitMeta /\ [][Next]_vars

----------------------------------------------------------------------------
(* Every document above *)

Init == InitPaths \/ InitTrees \/ InitLayers \/ InitMeta

Spec == Init /\ [][Next]_vars

\* The GeoItem entries of the first Geo child of the root's first MetaInfo
MetaNodes(dc) == {j \in KidSet(dc, 0) : dc[j].prognoz /\ dc[j].local = "MetaInfo"}
Least(S) == CHOOSE x \in S : \A y \in S : x <= y
GeoNodes(dc) ==
  IF MetaNodes(dc) = {} THEN {}
  ELSE {j \in KidSet(dc, Least(MetaNodes(dc))) : dc[j].local = "Geo"}
Correspondences(dc) ==
  IF GeoNodes(dc) = {} THEN {}
  ELSE {j \in KidSet(dc, Least(GeoNodes(dc))) : dc[j].local = "GeoItem"}

\* Nothing of the drawing has been touched and nothing handed out.
NothingProduced ==
  /\ visited = <<>> /\ stack = <<>> /\ idx = 0 /\ layerByName = <<>>
  /\ layers = <<>> /\ result = None /\ ~called

\* C5: without a calibration block of exactly three correspondences the
\* conversion ends with the calibration message (exit status 1) before any
\* drawing element is visited; the callback is never invoked.
C5_CalibrationMessage ==
  Cardinality(Correspondences(doc)) # 3 =>
    /\ pc \in {"find", "failed"}
    /\ pc = "failed" => error = "exit 1"
    /\ NothingProduced

SourcePoint(dc, j) == <<dc[j].num[1], dc[j].num[2]>>

CollinearSources(dc) ==
  /\ Cardinality(Correspondences(dc)) = 3
  /\ \A j \in Correspondences(dc) : dc[j].has
  /\ LET vs == SortedSeq(Correspondences(dc))
     IN Cross(SourcePoint(dc, vs[1]), SourcePoint(dc, vs[2]), SourcePoint(dc, vs[3])) = 0

\* C6: with three collinear source points the conversion is rejected while
\* calibrating and produces nothing: no element is visited, no
\* FeatureCollection is built, the callback is not invoked.
C6_CollinearRejected ==
  CollinearSources(doc) =>
    /\ pc \in {"find", "calibrate", "failed"}
    /\ pc = "failed" => error = "Matrix not invertible."
    /\ NothingProduced

\* Three distinct collinear source points have been rejected.
C6_Witness ==
  /\ CollinearSources(doc)
  /\ Cardinality({SourcePoint(doc, j) : j \in Correspondences(doc)}) = 3
  /\ pc = "failed"
  /\ error = "Matrix not invertible."

====
